---- MODULE Spec2Model ----
(***************************************************************************)
(* A model of pdf_to_jsonl_ocr_v4.py: main(), the construction of          *)
(* PDFToJSONLConverterOCRv4 and convert_pdf with the passes it runs        *)
(* (open_document, preflight, extract_images_by_page,                      *)
(* extract_and_save_tables, the per-page record loop with ocr_page, and    *)
(* package_and_save).                                                      *)
(*                                                                         *)
(* Texts are sequences of one-character strings; " " is the whitespace     *)
(* character.  Optional values are Null or Some(v).  Areas are integers    *)
(* and a coverage is an integer number of 1/10000 (the code rounds it to   *)
(* four decimals).  File-system paths are records naming the output area,  *)
(* the page and the artifact.                                              *)
(***************************************************************************)
EXTENDS Integers, Sequences, FiniteSets, TLC

\* ----------------------------------------------------------------- bounds
MaxPages == 2      \* pages of a document
MaxOcrLen == 1     \* characters the OCR engine returns for a page
MaxCells == 2      \* cells of one table candidate

\* ------------------------------------------------------- program constants
DEFAULT_OCR_DPI == 300
DEFAULT_OCR_PSM == 6
DEFAULT_OCR_OEM == 1
DEFAULT_OCR_LANG == "jpn+eng"
DEFAULT_CMD == "tesseract"
MinDpi == 72

Null == [null |-> TRUE]
Some(v) == [v |-> v]

\* -------------------------------------------------------------- str helpers
IsSpace(ch) == ch = " "

RECURSIVE LStrip(_)
LStrip(s) == IF s # <<>> /\ IsSpace(Head(s)) THEN LStrip(Tail(s)) ELSE s

RECURSIVE RStrip(_)
RStrip(s) ==
    IF s # <<>> /\ IsSpace(s[Len(s)]) THEN RStrip(SubSeq(s, 1, Len(s) - 1)) ELSE s

\* str.strip()
Strip(s) == RStrip(LStrip(s))

\* sum(1 for ch in text if not ch.isspace())
NonWsCount(s) == Cardinality({k \in 1..Len(s) : ~IsSpace(s[k])})

Max(a, b) == IF a >= b THEN a ELSE b

\* all texts of at most n characters over the alphabet
Texts(alphabet, n) == UNION {[1..k -> alphabet] : k \in 0..n}

\* ------------------------------------------------------------------- state
VARIABLES
    args,            \* the parsed command line
    env,             \* the process environment and what exists on the machine
    file,            \* the input document: its pages as the libraries see them
    pc,              \* position in main() / convert_pdf
    tesseract_cmd,   \* pytesseract.pytesseract.tesseract_cmd
    tessdata_prefix, \* os.environ["TESSDATA_PREFIX"]
    dirs,            \* output directories created (or ensured) by the run
    files,           \* paths of the files written by the run
    diag,            \* preflight(): diag["pages"]
    images,          \* extract_images_by_page(): images[i]
    tables,          \* extract_and_save_tables(): tables[i]
    i,               \* page index of the loop in progress
    s,               \* tables: the next strategy to call (1 lattice, 2 stream)
    pending,         \* tables: candidates of the current strategy not yet handled
    saved_paths,     \* tables: saved_paths of the page in progress
    last_table,      \* tables: what happened to the last candidate handled
    records,         \* convert_pdf: records
    loc              \* convert_pdf: the locals of the last loop iteration

vars == <<args, env, file, pc, tesseract_cmd, tessdata_prefix, dirs, files, diag,
          images, tables, i, s, pending, saved_paths, last_table, records, loc>>

\* ------------------------------------------------------------------- paths
Path(dir, page, kind, n) == [dir |-> dir, page |-> page, kind |-> kind, n |-> n]
ReportPath == Path("out", 0, "preflight_report.json", 0)
JsonlPath == Path("out", 0, "jsonl", 0)
ZipPath == Path("out", 0, "zip", 0)
\* os.path.join(self.ocr_dir, f"page{page_num}.txt") and .tsv, .hocr
OcrPath(page, ext) == Path("ocr", page, ext, 0)
\* page{i}_img{n}.{ext}, page{i}_fig{n}.png, page{i}_vector.png
ImagePath(page, kind, n) == Path("images", page, kind, n)
\* page{i}_table{n}.csv
TablePath(page, n) == Path("tables", page, "table", n)

\* ------------------------------------------------ Tesseract path detection
EnvPath == "/env/bin/tesseract"
ExePath == "/exe/bin/tesseract"
ArgPath == "/arg/bin/tesseract"
\* the built-in candidates, in the order the code appends them
DefaultPaths ==
    << "C:\\Program Files\\Tesseract-OCR\\tesseract.exe",
       "C:\\Program Files (x86)\\Tesseract-OCR\\tesseract.exe",
       "/opt/homebrew/bin/tesseract",
       "/usr/local/bin/tesseract",
       "/usr/bin/tesseract" >>

KnownPaths == {EnvPath, ExePath, ArgPath} \cup {DefaultPaths[k] : k \in 1..Len(DefaultPaths)}

\* os.path.dirname(c)
Dirname(c) ==
    CASE c = EnvPath -> "/env/bin"
      [] c = ExePath -> "/exe/bin"
      [] c = ArgPath -> "/arg/bin"
      [] c = DefaultPaths[1] -> "C:\\Program Files\\Tesseract-OCR"
      [] c = DefaultPaths[2] -> "C:\\Program Files (x86)\\Tesseract-OCR"
      [] c = DefaultPaths[3] -> "/opt/homebrew/bin"
      [] c = DefaultPaths[4] -> "/usr/local/bin"
      [] c = DefaultPaths[5] -> "/usr/bin"
      [] OTHER -> ""

\* os.environ.get("TESSERACT_CMD") or os.environ.get("TESSERACT_EXE")
EnvCmd(e) == IF e.TESSERACT_CMD # "" THEN e.TESSERACT_CMD ELSE e.TESSERACT_EXE

Opt(c) == IF c # "" THEN <<c>> ELSE <<>>

\* the list with the explicit argument ahead of the environment override
CandidatesArgFirst(e, arg) == Opt(arg) \o Opt(EnvCmd(e)) \o DefaultPaths

\* candidates, as _configure_tesseract builds the list
Candidates(e, arg) == Opt(EnvCmd(e)) \o Opt(arg) \o DefaultPaths

\* for c in candidates: if c and os.path.exists(c): ... break
RECURSIVE FirstExisting(_, _)
FirstExisting(cands, exists) ==
    IF cands = <<>> THEN ""
    ELSE IF Head(cands) # "" /\ Head(cands) \in exists THEN Head(cands)
    ELSE FirstExisting(Tail(cands), exists)

\* _configure_tesseract: the values of tesseract_cmd and TESSDATA_PREFIX after it
ConfigureTesseract(e, arg, cmd, prefix) ==
    LET c == FirstExisting(Candidates(e, arg), e.exists) IN
    IF ~e.lib \/ c = "" THEN [cmd |-> cmd, prefix |-> prefix]
    ELSE [cmd |-> c,
          prefix |-> IF c \in e.tessdata /\ prefix = "" THEN Dirname(c) ELSE prefix]

\* shutil_which(cmd): a bare name is looked up on PATH, a path must exist
ShutilWhich(e, cmd) == IF cmd = DEFAULT_CMD THEN e.on_path ELSE cmd \in e.exists

\* os.path.exists(cmd)
PathExists(e, cmd) == cmd \in e.exists

\* self.ocr_dpi = max(72, int(ocr_dpi))
OcrDpi == Max(MinDpi, args.ocr_dpi)

\* ------------------------------------------------------------------ Init
NoMeta ==
    [used |-> FALSE, lang |-> Null, dpi |-> Null, txt |-> Null, tsv |-> Null,
     hocr |-> Null, error |-> Null]

NoLoc ==
    [need_ocr |-> FALSE, engine |-> "not_called", raised |-> "none",
     osd_raised |-> FALSE, raw |-> <<>>, ocr_text |-> <<>>, native |-> <<>>,
     meta |-> [used |-> FALSE]]

NoTable == [valid |-> FALSE, nonblank |-> FALSE, persisted |-> FALSE, path |-> Null,
            before |-> 0]

InitWith(A, E, D) ==
    /\ args \in A
    /\ env \in E
    /\ file \in D
    /\ pc = "main"
    /\ tesseract_cmd = DEFAULT_CMD
    /\ tessdata_prefix = env.TESSDATA_PREFIX
    /\ dirs = {}
    /\ files = {}
    /\ diag = <<>>
    /\ images = <<>>
    /\ tables = <<>>
    /\ i = 0
    /\ s = 0
    /\ pending = 0
    /\ saved_paths = <<>>
    /\ last_table = NoTable
    /\ records = <<>>
    /\ loc = NoLoc

\* --------------------------------------------------------------- main()
\* main() with the output directory made ahead of the input check
MainMkdirsFirst ==
    /\ pc = "main"
    /\ pc' = IF args.input = "missing" THEN "fatal" ELSE "init"
    /\ dirs' = dirs \cup {"out"}
    /\ UNCHANGED <<args, env, file, tesseract_cmd, tessdata_prefix, files, diag,
                   images, tables, i, s, pending, saved_paths, last_table,
                   records, loc>>

\* if not os.path.isfile(args.input): raise SystemExit; os.makedirs(output_dir)
Main ==
    /\ pc = "main"
    /\ pc' = IF args.input = "missing" THEN "fatal" ELSE "init"
    /\ dirs' = IF args.input = "missing" THEN dirs ELSE dirs \cup {"out"}
    /\ UNCHANGED <<args, env, file, tesseract_cmd, tessdata_prefix, files, diag,
                   images, tables, i, s, pending, saved_paths, last_table,
                   records, loc>>

\* PDFToJSONLConverterOCRv4.__init__: the four makedirs and _configure_tesseract
Construct ==
    /\ pc = "init"
    /\ dirs' = dirs \cup {"out", "images", "tables", "ocr"}
    /\ LET c == ConfigureTesseract(env, args.tesseract_cmd, tesseract_cmd,
                                   tessdata_prefix) IN
        /\ tesseract_cmd' = c.cmd
        /\ tessdata_prefix' = c.prefix
    /\ pc' = "convert"
    /\ UNCHANGED <<args, env, file, files, diag, images, tables, i, s, pending,
                   saved_paths, last_table, records, loc>>

\* doc.authenticate(self.password)
Authenticate(pw) == pw = "good"

\* open_document: raises RuntimeError when the document needs a password and
\* none, or a wrong one, was given
OpenFails(a) ==
    a.input = "locked" /\ (a.password = "" \/ ~Authenticate(a.password))

OpenDocument ==
    /\ pc = "convert"
    /\ pc' = IF OpenFails(args) THEN "fatal" ELSE "preflight"
    /\ UNCHANGED <<args, env, file, tesseract_cmd, tessdata_prefix, dirs, files,
                   diag, images, tables, i, s, pending, saved_paths, last_table,
                   records, loc>>

\* ------------------------------------------------------------ preflight()
\* max(0, (x1 - x0)) * max(0, (y1 - y0))
BlockArea(b) == Max(0, b.bbox[3] - b.bbox[1]) * Max(0, b.bbox[4] - b.bbox[2])

RECURSIVE ImgArea(_)
ImgArea(blocks) ==
    IF blocks = <<>> THEN 0
    ELSE (IF Head(blocks).type = 1 THEN BlockArea(Head(blocks)) ELSE 0)
         + ImgArea(Tail(blocks))

\* float(page.rect.width * page.rect.height) or 1.0
PageArea(rect) == IF rect.width * rect.height = 0 THEN 1 ELSE rect.width * rect.height

\* round(img_area / page_area, 4), in units of 1/10000; an exact tie goes to
\* the even neighbour
Round4(a, p) ==
    LET n == 10000 * a
        q == n \div p
        r == n % p
    IN IF 2 * r > p \/ (2 * r = p /\ q % 2 = 1) THEN q + 1 ELSE q

HasTextBlock(blocks) == \E k \in 1..Len(blocks) : blocks[k].type = 0

PageDiag(n, page) ==
    [page |-> n,
     has_text_block |-> HasTextBlock(page.blocks),
     non_ws_chars |-> NonWsCount(Strip(page.text)),
     image_block_coverage |-> Round4(ImgArea(page.blocks), PageArea(page.rect))]

\* preflight(doc), then the report written by convert_pdf
Preflight ==
    /\ pc = "preflight"
    /\ diag' = [n \in 1..Len(file) |-> PageDiag(n, file[n])]
    /\ files' = IF args.preflight_report # "" THEN files \cup {ReportPath} ELSE files
    /\ pc' = "images"
    /\ i' = 1
    /\ UNCHANGED <<args, env, file, tesseract_cmd, tessdata_prefix, dirs, images,
                   tables, s, pending, saved_paths, last_table, records, loc>>

\* ------------------------------------------------ extract_images_by_page()
\* the xrefs of page.get_images(), each kept once (seen_xrefs)
RECURSIVE Dedupe(_, _)
Dedupe(xrefs, seen) ==
    IF xrefs = <<>> THEN <<>>
    ELSE IF Head(xrefs) \in seen THEN Dedupe(Tail(xrefs), seen)
    ELSE <<Head(xrefs)>> \o Dedupe(Tail(xrefs), seen \cup {Head(xrefs)})

\* strategy 1: one page{i}_img{len(saved)+1} per distinct xref
XobjectPaths(n, page) ==
    [k \in 1..Len(Dedupe(page.xrefs, {})) |-> ImagePath(n, "img", k)]

\* strategy 2: one page{i}_fig{fig_count} per block of type 1
FigPaths(n, page) ==
    LET figs == SelectSeq(page.blocks, LAMBDA b : b.type = 1)
    IN [k \in 1..Len(figs) |-> ImagePath(n, "fig", k)]

Min(a, b) == IF a <= b THEN a ELSE b

\* bbox = r if bbox is None else bbox.include_rect(r), over the drawings
RECURSIVE UnionRect(_, _)
UnionRect(bbox, drawings) ==
    IF drawings = <<>> THEN bbox
    ELSE LET r == Head(drawings) IN
         UnionRect(<<Min(bbox[1], r[1]), Min(bbox[2], r[2]),
                     Max(bbox[3], r[3]), Max(bbox[4], r[4])>>, Tail(drawings))

\* Rect.get_area(): 0 for an empty rectangle
RectArea(r) == IF r[3] > r[1] /\ r[4] > r[2] THEN (r[3] - r[1]) * (r[4] - r[2]) ELSE 0

\* strategy 3: one page{i}_vector.png when the drawings' bounding box has area
VectorPaths(n, page) ==
    IF page.drawings # <<>>
       /\ RectArea(UnionRect(Head(page.drawings), Tail(page.drawings))) > 0
    THEN <<ImagePath(n, "vector", 0)>> ELSE <<>>

Range(q) == {q[k] : k \in 1..Len(q)}

\* the strategies run one after the other with no handler around any of them: an
\* exception raised in strategy k leaves the files of the strategies before it
\* and propagates out of extract_images_by_page
ImagesOfPage(n, page) ==
    LET a == XobjectPaths(n, page)
        b == FigPaths(n, page)
        c == VectorPaths(n, page)
    IN CASE page.img_fault = "xobject" -> [raised |-> TRUE, saved |-> <<>>]
         [] page.img_fault = "block" -> [raised |-> TRUE, saved |-> a]
         [] page.img_fault = "vector" -> [raised |-> TRUE, saved |-> a \o b]
         [] OTHER -> [raised |-> FALSE, saved |-> a \o b \o c]

\* the same pass with each strategy's failure caught where it occurs
ImagesOfPageCaught(n, page) ==
    LET a == IF page.img_fault = "xobject" THEN <<>> ELSE XobjectPaths(n, page)
        b == IF page.img_fault = "block" THEN <<>> ELSE FigPaths(n, page)
        c == IF page.img_fault = "vector" THEN <<>> ELSE VectorPaths(n, page)
    IN [raised |-> FALSE, saved |-> a \o b \o c]

\* one iteration of the page loop of extract_images_by_page
ExtractImagesPage ==
    /\ pc = "images"
    /\ LET r == ImagesOfPage(i, file[i]) IN
        /\ files' = files \cup Range(r.saved)
        /\ images' = IF r.raised THEN images ELSE Append(images, r.saved)
        /\ pc' = IF r.raised THEN "raised"
                 ELSE IF i = Len(file) THEN "tables" ELSE "images"
        /\ i' = IF r.raised THEN i ELSE IF i = Len(file) THEN 1 ELSE i + 1
        /\ s' = IF ~r.raised /\ i = Len(file) THEN 1 ELSE s
    /\ UNCHANGED <<args, env, file, tesseract_cmd, tessdata_prefix, dirs, diag,
                   tables, pending, saved_paths, last_table, records, loc>>

\* ----------------------------------------------- extract_and_save_tables()
Cells == {Null, Some(<<>>), Some(<<" ">>), Some(<<"a">>)}

\* rows of exactly k cells
RowsOf(k) == [1..k -> Cells]

\* table candidates of at most c cells in all, every row with at least one cell
RECURSIVE TablesUpTo(_)
TablesUpTo(c) ==
    {<<>>} \cup UNION {{<<row>> \o t : row \in RowsOf(k), t \in TablesUpTo(c - k)} :
                       k \in 1..c}

TableCandidates == TablesUpTo(MaxCells)

\* cleaned = [(cell if cell is not None else "") for cell in row]
CleanRow(row) == [k \in 1..Len(row) |-> IF row[k] = Null THEN <<>> ELSE row[k].v]

\* any(c.strip() for c in cleaned), were the cells not stripped first
RowKeptUnstripped(cleaned) == \E k \in 1..Len(cleaned) : cleaned[k] # <<>>

\* any((c.strip() if isinstance(c, str) else str(c)) for c in cleaned); the
\* cells pdfplumber returns are strings or None
RowKept(cleaned) == \E k \in 1..Len(cleaned) : Strip(cleaned[k]) # <<>>

RECURSIVE CleanedRows(_)
CleanedRows(table) ==
    IF table = <<>> THEN <<>>
    ELSE LET cleaned == CleanRow(Head(table)) IN
         (IF RowKept(cleaned) THEN <<cleaned>> ELSE <<>>) \o CleanedRows(Tail(table))

\* a cell that is not None, empty or whitespace-only, in some row
HasNonBlankCell(table) ==
    \E r \in 1..Len(table) : \E k \in 1..Len(table[r]) :
        table[r][k] # Null /\ \E j \in 1..Len(table[r][k].v) : table[r][k].v[j] # " "

\* page.extract_tables(table_settings=settings) under try/except: the number of
\* candidates the strategy hands to the loop
StrategyCount(page, strategy) ==
    LET r == IF strategy = 1 THEN page.lattice ELSE page.stream
    IN IF r.raises THEN 0 ELSE r.n

\* the call of the next strategy, were the text-alignment strategy skipped once
\* the ruled-line strategy has returned candidates
TablesStrategyFirstHitOnly ==
    /\ pc = "tables"
    /\ pending = 0
    /\ s \in {1, 2}
    /\ pending' = StrategyCount(file[i], s)
    /\ s' = IF s = 1 /\ StrategyCount(file[i], 1) > 0 THEN 3 ELSE s + 1
    /\ UNCHANGED <<args, env, file, pc, tesseract_cmd, tessdata_prefix, dirs, files,
                   diag, images, tables, i, saved_paths, last_table, records, loc>>

\* the call of the next strategy on page i
TablesStrategy ==
    /\ pc = "tables"
    /\ pending = 0
    /\ s \in {1, 2}
    /\ pending' = StrategyCount(file[i], s)
    /\ s' = s + 1
    /\ UNCHANGED <<args, env, file, pc, tesseract_cmd, tessdata_prefix, dirs, files,
                   diag, images, tables, i, saved_paths, last_table, records, loc>>

\* one iteration of "for table in page_tables"
TablesCandidate ==
    /\ pc = "tables"
    /\ pending > 0
    /\ \E table \in TableCandidates :
        LET cleaned_rows == CleanedRows(table)
            table_file == TablePath(i, Len(saved_paths) + 1)
            keep == cleaned_rows # <<>>
        IN /\ saved_paths' = IF keep THEN Append(saved_paths, table_file)
                             ELSE saved_paths
           /\ files' = IF keep THEN files \cup {table_file} ELSE files
           /\ last_table' = [valid |-> TRUE, nonblank |-> HasNonBlankCell(table),
                             persisted |-> keep,
                             path |-> IF keep THEN Some(table_file) ELSE Null,
                             before |-> Len(saved_paths)]
    /\ pending' = pending - 1
    /\ UNCHANGED <<args, env, file, pc, tesseract_cmd, tessdata_prefix, dirs, diag,
                   images, tables, i, s, records, loc>>

\* tables[i] = saved_paths, and the next page
TablesPageEnd ==
    /\ pc = "tables"
    /\ pending = 0
    /\ s = 3
    /\ tables' = Append(tables, saved_paths)
    /\ saved_paths' = <<>>
    /\ s' = IF i = Len(file) THEN 0 ELSE 1
    /\ i' = IF i = Len(file) THEN 1 ELSE i + 1
    /\ pc' = IF i = Len(file) THEN "records" ELSE "tables"
    /\ UNCHANGED <<args, env, file, tesseract_cmd, tessdata_prefix, dirs, files,
                   diag, images, pending, last_table, records, loc>>

\* ------------------------------------------------------------- ocr_page()
\* str(e) of the exception raised at a stage
ErrorMessage(stage) ==
    CASE stage = "render" -> "render_error"
      [] stage = "recognize" -> "recognize_error"
      [] OTHER -> "write_error"

Stages == {"render", "recognize", "write_txt", "write_tsv", "write_hocr"}

\* what the engine and the file system do during one ocr_page call: the stage
\* that raises (or "none"), whether image_to_osd raises inside _auto_rotate, and
\* the string image_to_string returns
OcrOutcomes(rotate) ==
    {[fail |-> f, osd_fail |-> o, text |-> <<>>] :
        f \in Stages, o \in IF rotate = "auto" THEN BOOLEAN ELSE {FALSE}}
    \cup {[fail |-> "none", osd_fail |-> o, text |-> t] :
             o \in IF rotate = "auto" THEN BOOLEAN ELSE {FALSE},
             t \in Texts({" ", "b"}, MaxOcrLen)}

NoOutcome == [fail |-> "none", osd_fail |-> FALSE, text |-> <<>>]

\* the files ocr_page has written when it returns
OcrWritten(n, fail) ==
    CASE fail \in {"render", "recognize", "write_txt"} -> {}
      [] fail = "write_tsv" -> {OcrPath(n, "txt")}
      [] fail = "write_hocr" -> {OcrPath(n, "txt"), OcrPath(n, "tsv")}
      [] OTHER -> {OcrPath(n, "txt"), OcrPath(n, "tsv"), OcrPath(n, "hocr")}

\* not (not shutil_which(cmd) and not os.path.exists(cmd))
EngineFound(e, cmd) == ShutilWhich(e, cmd) \/ PathExists(e, cmd)

\* the precondition check without the look-up of the binary
UnavailableLibOnly(e, cmd) ==
    IF ~e.lib THEN "pytesseract_or_pillow_not_available" ELSE ""

\* the error ocr_page reports before it renders anything, or "" when it goes on
Unavailable(e, cmd) ==
    IF ~e.lib THEN "pytesseract_or_pillow_not_available"
    ELSE IF ~EngineFound(e, cmd) THEN "tesseract_not_found"
    ELSE ""

\* meta.update({"used": True, "lang":, "dpi":, "txt":, "tsv":, "hocr":})
OcrMetaDone(n, lang, dpi) ==
    [NoMeta EXCEPT !.used = TRUE, !.lang = Some(lang), !.dpi = Some(dpi),
                   !.txt = Some(OcrPath(n, "txt")), !.tsv = Some(OcrPath(n, "tsv")),
                   !.hocr = Some(OcrPath(n, "hocr"))]

\* ocr_page with the exception of a stage escaping the handler
OcrPageUncaught(e, cmd, n, lang, dpi, out) ==
    [text |-> <<>>, meta |-> NoMeta, written |-> {}, escaped |-> out.fail # "none"]

\* ocr_page(page, page_num): the text and meta it returns and the files it
\* wrote; every stage runs inside the try, so nothing escapes.  The
\* "failed_to_render_page_image" return needs Image to be None, which the first
\* check has excluded.
OcrPage(e, cmd, n, lang, dpi, out) ==
    LET u == Unavailable(e, cmd) IN
    IF u # ""
    THEN [text |-> <<>>, meta |-> [NoMeta EXCEPT !.error = Some(u)],
          written |-> {}, escaped |-> FALSE]
    ELSE IF out.fail # "none"
    THEN [text |-> <<>>,
          meta |-> [NoMeta EXCEPT !.error = Some(ErrorMessage(out.fail))],
          written |-> OcrWritten(n, out.fail), escaped |-> FALSE]
    ELSE [text |-> Strip(out.text), meta |-> OcrMetaDone(n, lang, dpi),
          written |-> OcrWritten(n, "none"), escaped |-> FALSE]

\* ------------------------------------------------- convert_pdf: page loop
\* the trigger with "<=" for "<" on the character count
NeedOcrLe(mode, has_text_block, non_ws, coverage, th_nonws, th_coverage) ==
    IF mode = "force" THEN TRUE
    ELSE IF mode = "auto"
    THEN (~has_text_block) \/ (non_ws <= th_nonws) \/ (coverage >= th_coverage)
    ELSE FALSE

\* need_ocr, as the loop computes it
NeedOcr(mode, has_text_block, non_ws, coverage, th_nonws, th_coverage) ==
    IF mode = "force" THEN TRUE
    ELSE IF mode = "auto"
    THEN (~has_text_block) \/ (non_ws < th_nonws) \/ (coverage >= th_coverage)
    ELSE FALSE

\* the selection with the emptiness test of ocr_text left out
OcrUsedNoTextTest(need_ocr, meta, ocr_text) == need_ocr /\ meta.used

\* if need_ocr: ...; if meta.get('used') and ocr_text: ocr_used = True
OcrUsed(need_ocr, meta, ocr_text) == need_ocr /\ meta.used /\ ocr_text # <<>>

\* ocr_meta.get(key): None for a key the dict lacks
MetaGet(meta, key) ==
    IF key \in DOMAIN meta THEN meta[key] ELSE Null

\* record = {...}
MakeRecord(n, text_final, ocr_used, ocr_meta, page_diag, imgs, tabs) ==
    [page |-> n,
     text |-> text_final,
     images |-> imgs,
     tables |-> tabs,
     diagnostics |-> page_diag,
     ocr |-> [used |-> ocr_used,
              mode |-> args.ocr_mode,
              lang |-> IF ocr_used THEN Some(args.ocr_lang) ELSE Null,
              dpi |-> IF ocr_used THEN Some(OcrDpi) ELSE Null,
              psm |-> IF ocr_used THEN Some(args.ocr_psm) ELSE Null,
              oem |-> IF ocr_used THEN Some(args.ocr_oem) ELSE Null,
              rotate |-> IF ocr_used THEN Some(args.ocr_rotate) ELSE Null,
              artifacts |-> [txt |-> MetaGet(ocr_meta, "txt"),
                             tsv |-> MetaGet(ocr_meta, "tsv"),
                             hocr |-> MetaGet(ocr_meta, "hocr"),
                             error |-> MetaGet(ocr_meta, "error")]]]

\* one iteration of "for i, page in enumerate(doc, start=1)"; preflight has
\* run over the same pages, so diag["pages"][i-1] is there
ConvertPage ==
    /\ pc = "records"
    /\ LET text_pymupdf == Strip(file[i].text)
           non_ws == NonWsCount(text_pymupdf)
           page_diag == diag[i]
           need_ocr == NeedOcr(args.ocr_mode, page_diag.has_text_block, non_ws,
                               page_diag.image_block_coverage, args.th_nonws,
                               args.th_coverage)
           ran == need_ocr /\ Unavailable(env, tesseract_cmd) = ""
       IN \E out \in IF ran THEN OcrOutcomes(args.ocr_rotate) ELSE {NoOutcome} :
           LET r == OcrPage(env, tesseract_cmd, i, args.ocr_lang, OcrDpi, out)
               ocr_used == OcrUsed(need_ocr, r.meta, r.text)
               text_final == IF ocr_used THEN r.text ELSE text_pymupdf
               ocr_meta == IF need_ocr THEN r.meta ELSE [used |-> FALSE]
               escaped == need_ocr /\ r.escaped
           IN /\ files' = IF need_ocr THEN files \cup r.written ELSE files
              /\ records' = IF escaped THEN records
                            ELSE Append(records,
                                        MakeRecord(i, text_final, ocr_used, ocr_meta,
                                                   page_diag, images[i], tables[i]))
              /\ loc' = [need_ocr |-> need_ocr,
                         engine |-> IF ~need_ocr THEN "not_called"
                                    ELSE IF ran THEN "ran"
                                    ELSE Unavailable(env, tesseract_cmd),
                         raised |-> IF ran THEN out.fail ELSE "none",
                         osd_raised |-> ran /\ out.osd_fail,
                         raw |-> IF ran THEN out.text ELSE <<>>,
                         ocr_text |-> IF need_ocr THEN r.text ELSE <<>>,
                         native |-> text_pymupdf,
                         meta |-> ocr_meta]
              /\ pc' = IF escaped THEN "raised"
                       ELSE IF i = Len(file) THEN "package" ELSE "records"
              /\ i' = IF escaped THEN i ELSE i + 1
    /\ UNCHANGED <<args, env, file, tesseract_cmd, tessdata_prefix, dirs, diag,
                   images, tables, s, pending, saved_paths, last_table>>

\* doc.close(); package_and_save(records, base_name)
PackageAndSave ==
    /\ pc = "package"
    /\ files' = files \cup {JsonlPath, ZipPath}
    /\ pc' = "done"
    /\ UNCHANGED <<args, env, file, tesseract_cmd, tessdata_prefix, dirs, diag,
                   images, tables, i, s, pending, saved_paths, last_table,
                   records, loc>>

Next ==
    \/ Main
    \/ Construct
    \/ OpenDocument
    \/ Preflight
    \/ ExtractImagesPage
    \/ TablesStrategy
    \/ TablesCandidate
    \/ TablesPageEnd
    \/ ConvertPage
    \/ PackageAndSave

\* ------------------------------------------------------- inputs of a run
\* the command line with every option at its default, but for the character
\* threshold, which is set against the short texts of the pages below
BaseArgs ==
    [input |-> "plain", password |-> "", ocr_mode |-> "auto", ocr_rotate |-> "auto",
     ocr_lang |-> DEFAULT_OCR_LANG, ocr_dpi |-> DEFAULT_OCR_DPI,
     ocr_psm |-> DEFAULT_OCR_PSM, ocr_oem |-> DEFAULT_OCR_OEM,
     th_nonws |-> 1, th_coverage |-> 7000, tesseract_cmd |-> "",
     preflight_report |-> "preflight_report.json"]

Modes == {"auto", "force", "off"}
Rotates == {"auto", "none"}

\* the input file and the password given: missing, not encrypted, encrypted
\* with no, a wrong or the right password
Inputs ==
    {<<"missing", "">>, <<"plain", "">>, <<"locked", "">>, <<"locked", "bad">>,
     <<"locked", "good">>}

\* a machine with the OCR libraries and the engine installed
EnvOk ==
    [lib |-> TRUE, TESSERACT_CMD |-> "", TESSERACT_EXE |-> "", TESSDATA_PREFIX |-> "",
     exists |-> {"/usr/bin/tesseract"}, tessdata |-> {}, on_path |-> TRUE]
\* pytesseract or Pillow is not installed
EnvNoLib == [EnvOk EXCEPT !.lib = FALSE]
\* the libraries are there, the binary is nowhere
EnvNotFound == [EnvOk EXCEPT !.exists = {}, !.on_path = FALSE]

PageRect == [width |-> 2, height |-> 2]
TextBlock == [type |-> 0, bbox |-> <<0, 0, 2, 1>>]
HalfImage == [type |-> 1, bbox |-> <<0, 0, 2, 1>>]
FullImage == [type |-> 1, bbox |-> <<0, 0, 2, 2>>]
NoTables == [raises |-> FALSE, n |-> 0]

\* a page of text, with one ruled table
PlainPage ==
    [text |-> <<" ", "a">>, blocks |-> <<TextBlock>>, rect |-> PageRect,
     xrefs |-> <<>>, drawings |-> <<>>, img_fault |-> "none",
     lattice |-> [raises |-> FALSE, n |-> 1], stream |-> NoTables]

\* a scanned page: one full-page image and no text layer
ScannedPage ==
    [text |-> <<>>, blocks |-> <<FullImage>>, rect |-> PageRect,
     xrefs |-> <<1>>, drawings |-> <<>>, img_fault |-> "none",
     lattice |-> NoTables, stream |-> [raises |-> TRUE, n |-> 0]]

\* the documents of one to MaxPages pages drawn from P
Docs(P) == UNION {[1..n -> P] : n \in 1..MaxPages}

\* ------------------------------------------------------- specifications
\* the run under every OCR mode, rotation setting, input and engine state
Init ==
    InitWith({[BaseArgs EXCEPT !.ocr_mode = m, !.ocr_rotate = r, !.input = in[1],
                               !.password = in[2]] :
                  m \in Modes, r \in Rotates, in \in Inputs \ {<<"locked", "good">>}},
             {EnvOk, EnvNoLib, EnvNotFound},
             Docs({PlainPage, ScannedPage}))

Spec == Init /\ [][Next]_vars

\* the trigger policy over modes, thresholds and diagnostics, on one-page
\* documents, with the OCR libraries absent
QuarterImage == [type |-> 1, bbox |-> <<0, 0, 1, 1>>]

DecidePages ==
    {[PlainPage EXCEPT !.text = t, !.blocks = b] :
        t \in {<<>>, <<" ", "a", " ">>, <<"a", " ", "a">>},
        b \in {<<>>, <<TextBlock>>, <<TextBlock, QuarterImage>>,
               <<TextBlock, HalfImage>>, <<TextBlock, FullImage>>}}

InitDecide ==
    InitWith({[BaseArgs EXCEPT !.ocr_mode = m, !.th_nonws = tn, !.th_coverage = tc,
                               !.input = in[1], !.password = in[2]] :
                  m \in Modes, tn \in 0..3, tc \in {0, 2500, 5000, 7000, 10000},
                  in \in {<<"plain", "">>, <<"locked", "good">>}},
             {EnvNoLib},
             {<<p>> : p \in DecidePages})

SpecDecide == InitDecide /\ [][Next]_vars

\* image extraction over pages with and without content, each strategy
\* raising or not, OCR off
RichPage ==
    [PlainPage EXCEPT !.blocks = <<TextBlock, HalfImage>>, !.xrefs = <<1, 1, 2>>,
                      !.drawings = <<<<0, 0, 1, 1>>, <<1, 1, 2, 2>>>>]
BarePage ==
    [PlainPage EXCEPT !.blocks = <<>>, !.drawings = <<<<1, 0, 1, 2>>>>,
                      !.lattice = NoTables]
Faults == {"none", "xobject", "block", "vector"}

ImagePages == {[p EXCEPT !.img_fault = f] : p \in {RichPage, BarePage}, f \in Faults}

InitImages ==
    InitWith({[BaseArgs EXCEPT !.ocr_mode = "off"]}, {EnvOk}, Docs(ImagePages))

SpecImages == InitImages /\ [][Next]_vars

\* table extraction over pages on which a strategy raises, returns nothing, or
\* returns one or two candidates, OCR off
Raises == [raises |-> TRUE, n |-> 0]
Returns(k) == [raises |-> FALSE, n |-> k]

TablePages ==
    {[PlainPage EXCEPT !.lattice = ls[1], !.stream = ls[2]] :
        ls \in {<<Raises, Returns(1)>>, <<Returns(1), Raises>>,
                <<Returns(1), Returns(1)>>, <<Returns(2), Returns(0)>>}}

InitTables ==
    InitWith({[BaseArgs EXCEPT !.ocr_mode = "off"]}, {EnvOk}, Docs(TablePages))

SpecTables == InitTables /\ [][Next]_vars

\* the diagnostics pass over pages whose image blocks overlap each other, reach
\* beyond the page rectangle or have corners in reverse order, and over a page
\* that reports zero area, OCR off
WideImage == [type |-> 1, bbox |-> <<0, 0, 3, 3>>]
FlippedImage == [type |-> 1, bbox |-> <<2, 2, 0, 0>>]
ZeroRect == [width |-> 0, height |-> 0]

CoveragePages ==
    {[PlainPage EXCEPT !.blocks = br[1], !.rect = br[2]] :
        br \in {<<<<TextBlock, HalfImage>>, PageRect>>,
                <<<<FullImage, FullImage>>, PageRect>>,
                <<<<WideImage>>, PageRect>>,
                <<<<FlippedImage>>, PageRect>>,
                <<<<TextBlock>>, ZeroRect>>,
                <<<<HalfImage>>, ZeroRect>>}}

InitCoverage ==
    InitWith({[BaseArgs EXCEPT !.ocr_mode = "off"]}, {EnvOk}, Docs(CoveragePages))

SpecCoverage == InitCoverage /\ [][Next]_vars

\* engine detection over the environment: the override variables, the explicit
\* argument, which binaries exist, PATH, the libraries, tessdata
ConfigEnvs ==
    {[lib |-> l, TESSERACT_CMD |-> c, TESSERACT_EXE |-> x, TESSDATA_PREFIX |-> tp,
      exists |-> ex, tessdata |-> td, on_path |-> op] :
        l \in BOOLEAN, c \in {"", EnvPath}, x \in {"", ExePath},
        tp \in {"", "/preset"},
        ex \in SUBSET {EnvPath, ExePath, ArgPath, "/usr/bin/tesseract"},
        td \in {{}, KnownPaths}, op \in BOOLEAN}

InitConfig ==
    InitWith({[BaseArgs EXCEPT !.ocr_rotate = "none", !.tesseract_cmd = a] :
                  a \in {"", ArgPath}},
             ConfigEnvs,
             {<<PlainPage, ScannedPage>>})

SpecConfig == InitConfig /\ [][Next]_vars

\* ------------------------------------------------------------ properties
HasRecord == Len(records) >= 1
LastRecord == records[Len(records)]
\* page.get_text().strip() of the page a record is for
NativeText(r) == Strip(file[r.page].text)
NonBlank(text) == \E j \in 1..Len(text) : text[j] # " "

\* in the record loop and after it the records carry the page indices 1, 2, ...
\* in order, one for every page already looped over
RecordsInOrder ==
    /\ \A k \in 1..Len(records) : records[k].page = k
    /\ pc = "records" => Len(records) = i - 1 /\ i <= Len(file)
    /\ pc \in {"package", "done"} => Len(records) = Len(file)

\* C1: for a document that opened, convert_pdf emits exactly one record per
\* page, with the page indices 1, 2, ..., page_count in order: no exception ends
\* the run short of its records, and the records are in order and complete.
C1_OneRecordPerPage ==
    /\ pc # "raised"
    /\ RecordsInOrder

\* C2: the trigger computed for a page is the policy applied to the page's
\* diagnostic: never in mode off, always in mode force, and in mode auto
\* exactly when the page has no text block, or non_ws_chars < th_nonws, or
\* image_block_coverage >= th_coverage.
C2_TriggerPolicy ==
    HasRecord =>
        LET d == LastRecord.diagnostics IN
        loc.need_ocr =
            CASE args.ocr_mode = "off" -> FALSE
              [] args.ocr_mode = "force" -> TRUE
              [] OTHER -> \/ ~d.has_text_block
                          \/ d.non_ws_chars < args.th_nonws
                          \/ d.image_block_coverage >= args.th_coverage

\* the boundary of the character count: a count equal to the threshold, with a
\* text block and coverage under its threshold, does not trigger
C2_Witness ==
    /\ HasRecord
    /\ args.ocr_mode = "auto"
    /\ LastRecord.diagnostics.has_text_block
    /\ LastRecord.diagnostics.non_ws_chars = args.th_nonws
    /\ args.th_nonws > 0
    /\ LastRecord.diagnostics.image_block_coverage < args.th_coverage
    /\ ~loc.need_ocr

\* C3: a record has the OCR text and ocr.used = true exactly when OCR was
\* triggered, ran without an error and recognized a string that is not empty
\* once trimmed; otherwise it has the native text and ocr.used = false.  A
\* record with ocr.used = true has a non-empty text.
C3_TextSelection ==
    HasRecord =>
        LET r == LastRecord
            succeeded == /\ loc.need_ocr
                         /\ loc.engine = "ran"
                         /\ loc.raised = "none"
                         /\ NonBlank(loc.raw)
        IN /\ r.ocr.used = succeeded
           /\ succeeded => r.text = Strip(loc.raw) /\ r.text # <<>>
           /\ ~succeeded => r.text = NativeText(r)

\* OCR ran to the end on a page with native text and recognized blanks only
C3_Witness ==
    /\ HasRecord
    /\ loc.engine = "ran"
    /\ loc.raised = "none"
    /\ loc.raw = <<" ">>
    /\ ~LastRecord.ocr.used
    /\ LastRecord.text = <<"a">>

\* nothing is raised out of the record loop: an exception ends a run only in
\* the image pass, before any record
NoRaiseInLoop == pc = "raised" => Len(images) < Len(file) /\ records = <<>>

LibMissing == ~env.lib
BinaryMissing ==
    /\ env.lib
    /\ tesseract_cmd \notin env.exists
    /\ ~(tesseract_cmd = DEFAULT_CMD /\ env.on_path)

\* C4 as stated: with OCR triggered and the engine unavailable the record has
\* ocr.used = false, the native text and the error "engine_unavailable".
C4_AsStated ==
    /\ NoRaiseInLoop
    /\ HasRecord /\ loc.need_ocr /\ (LibMissing \/ BinaryMissing) =>
          /\ ~LastRecord.ocr.used
          /\ LastRecord.text = NativeText(LastRecord)
          /\ LastRecord.ocr.artifacts.error = Some("engine_unavailable")

\* C4: with OCR triggered and the engine unavailable, nothing is raised and the
\* record has ocr.used = false and the native text; its error is
\* "pytesseract_or_pillow_not_available" when the support library is missing and
\* "tesseract_not_found" when the binary cannot be located.
C4_EngineUnavailable ==
    /\ NoRaiseInLoop
    /\ HasRecord /\ loc.need_ocr /\ (LibMissing \/ BinaryMissing) =>
          /\ ~LastRecord.ocr.used
          /\ LastRecord.text = NativeText(LastRecord)
          /\ LastRecord.ocr.artifacts.error =
                IF LibMissing THEN Some("pytesseract_or_pillow_not_available")
                ELSE Some("tesseract_not_found")

C4_Witness ==
    /\ HasRecord
    /\ args.ocr_mode = "force"
    /\ BinaryMissing
    /\ LastRecord.text = <<"a">>
    /\ LastRecord.ocr.artifacts.error = Some("tesseract_not_found")

\* the run goes on after the page: the loop is at the next page or has ended
\* with a record for every page
RunGoesOn ==
    /\ NoRaiseInLoop
    /\ pc = "records" => Len(records) = i - 1
    /\ pc \in {"package", "done"} => Len(records) = Len(file)

\* C5 as stated: an exception in rendering, rotation, recognition or the writing
\* of the artifacts leaves the record with the native text, ocr.used = false
\* and an error, and the run goes on.
C5_AsStated ==
    /\ RunGoesOn
    /\ HasRecord /\ (loc.raised # "none" \/ loc.osd_raised) =>
          /\ ~LastRecord.ocr.used
          /\ LastRecord.text = NativeText(LastRecord)
          /\ LastRecord.ocr.artifacts.error # Null

\* C5: an exception in rendering, recognition or the writing of the artifacts
\* leaves the record with the native text, ocr.used = false and the exception's
\* message as error; an exception in the rotation detection is swallowed, OCR
\* goes on with the unrotated image and the record is that of the rest of the
\* OCR run, with no error when it succeeds; in every case the run goes on to the
\* next page and ends with a record for every page.
C5_OcrFailureContained ==
    /\ RunGoesOn
    /\ HasRecord /\ loc.raised # "none" =>
          /\ ~LastRecord.ocr.used
          /\ LastRecord.text = NativeText(LastRecord)
          /\ LastRecord.ocr.artifacts.error = Some(ErrorMessage(loc.raised))
    /\ HasRecord /\ loc.osd_raised /\ loc.raised = "none" =>
          /\ LastRecord.ocr.artifacts.error = Null
          /\ LastRecord.ocr.used = NonBlank(loc.raw)

\* recognition raised on page 1 and the run ended with both records
C5_Witness ==
    /\ pc = "done"
    /\ Len(records) = 2
    /\ records[1].ocr.artifacts.error = Some("recognize_error")
    /\ records[1].text = <<"a">>
    /\ loc.osd_raised

\* C6: image extraction never raises: a strategy that fails contributes no
\* path, the other strategies and the later pages still run, and the run ends
\* with a record for every page.
C6_ImagesNeverRaise ==
    /\ pc # "raised"
    /\ pc = "done" =>
          /\ Len(records) = Len(file)
          /\ \A k \in 1..Len(records) :
                records[k].images = ImagesOfPageCaught(k, file[k]).saved

\* C7: a record with ocr.used = false has null in lang, dpi, psm, oem, rotate
\* and in the artifact paths txt, tsv and hocr.
C7_DetailsNullWhenUnused ==
    \A k \in 1..Len(records) :
        ~records[k].ocr.used =>
            /\ records[k].ocr.lang = Null
            /\ records[k].ocr.dpi = Null
            /\ records[k].ocr.psm = Null
            /\ records[k].ocr.oem = Null
            /\ records[k].ocr.rotate = Null
            /\ records[k].ocr.artifacts.txt = Null
            /\ records[k].ocr.artifacts.tsv = Null
            /\ records[k].ocr.artifacts.hocr = Null

\* C8: in the step that handles a table candidate, a candidate whose cells are
\* all blank adds no file and no path, and a candidate with a non-blank cell adds
\* exactly one new file, the next-numbered table of the page, and its path at the
\* end of the page's list.
C8_BlankTablesDropped ==
    [][pending' = pending - 1 =>
          IF last_table'.nonblank
          THEN /\ last_table'.persisted
               /\ TablePath(i, Len(saved_paths) + 1) \notin files
               /\ files' = files \cup {TablePath(i, Len(saved_paths) + 1)}
               /\ saved_paths' = Append(saved_paths, TablePath(i, Len(saved_paths) + 1))
          ELSE /\ ~last_table'.persisted
               /\ files' = files
               /\ saved_paths' = saved_paths]_vars

\* a blank candidate was dropped on a page that already has a saved table
C8_Witness ==
    /\ pc = "tables"
    /\ last_table.valid
    /\ ~last_table.nonblank
    /\ ~last_table.persisted
    /\ Len(saved_paths) = 1
    /\ saved_paths[1] \in files

\* C9 as stated: at a fatal termination no output directory has been created
\* and no file has been written.
C9_AsStated == pc = "fatal" => dirs = {} /\ files = {}

\* C9: a run terminates fatally only for a missing input file or an encrypted
\* document with no valid password, and has then written no file; for a missing
\* input file no output directory has been created either, while for the
\* encrypted document the output directory and its images, tables and ocr
\* subdirectories have been created.
C9_FatalBeforeOutput ==
    pc = "fatal" =>
        /\ files = {}
        /\ \/ args.input = "missing" /\ dirs = {}
           \/ /\ args.input = "locked"
              /\ args.password # "good"
              /\ dirs = {"out", "images", "tables", "ocr"}

C9_Witness == pc = "fatal" /\ args.input = "locked" /\ args.password = "bad"

Configured == pc \notin {"main", "init"}
Usable(c) == c # "" /\ c \in env.exists
FirstDefault ==
    LET found == {k \in 1..Len(DefaultPaths) : DefaultPaths[k] \in env.exists}
    IN IF found = {} THEN DEFAULT_CMD
       ELSE DefaultPaths[CHOOSE k \in found : \A m \in found : k <= m]

\* C10 as stated: the configured binary is the explicit argument if it exists,
\* else the environment override, else the first default path, else the bare
\* name for PATH; it does not change after construction.
C10_AsStated ==
    Configured /\ env.lib =>
        tesseract_cmd =
            IF Usable(args.tesseract_cmd) THEN args.tesseract_cmd
            ELSE IF Usable(EnvCmd(env)) THEN EnvCmd(env)
            ELSE FirstDefault

\* C10: with the OCR library present, the configured binary is, from
\* construction to the end of the run, the environment override if it exists,
\* else the explicit argument if it exists, else the first default path that
\* exists, else the bare name, which OCR then finds exactly when it is on PATH;
\* when both the override and the argument exist the override is configured.
C10_EnginePathPriority ==
    /\ Configured /\ env.lib =>
          tesseract_cmd =
              IF Usable(EnvCmd(env)) THEN EnvCmd(env)
              ELSE IF Usable(args.tesseract_cmd) THEN args.tesseract_cmd
              ELSE FirstDefault
    /\ ~Configured \/ ~env.lib => tesseract_cmd = DEFAULT_CMD
    /\ HasRecord /\ loc.need_ocr /\ env.lib /\ tesseract_cmd = DEFAULT_CMD =>
          (loc.engine = "ran") = env.on_path

\* both exist, the override was configured and the pages have been processed
C10_Witness ==
    /\ pc = "done"
    /\ env.lib
    /\ Usable(args.tesseract_cmd)
    /\ Usable(EnvCmd(env))
    /\ tesseract_cmd = EnvPath
    /\ loc.engine = "ran"

\* the paths of a page's table list are page{n}_table1 .. page{n}_table{k}
NumberedFrom1(paths, n) == \A j \in 1..Len(paths) : paths[j] = TablePath(n, j)

\* C11: on every page the ruled-line strategy is called first and the
\* text-alignment strategy second, whatever the first returned; a strategy that
\* raises hands over no candidate and the extraction goes on; every candidate a
\* strategy returned is handled before the next call; the page's list is stored
\* only after both calls, and its tables are numbered 1..k in the order saved.
C11_BothStrategiesNumbered ==
    [][pc = "tables" =>
          /\ pc' \in {"tables", "records"}
          /\ pending = 0 /\ s = 1 =>
                /\ saved_paths = <<>>
                /\ s' = 2
                /\ pending' = (IF file[i].lattice.raises THEN 0 ELSE file[i].lattice.n)
                /\ saved_paths' = saved_paths /\ tables' = tables /\ files' = files
          /\ pending = 0 /\ s = 2 =>
                /\ s' = 3
                /\ pending' = (IF file[i].stream.raises THEN 0 ELSE file[i].stream.n)
                /\ saved_paths' = saved_paths /\ tables' = tables /\ files' = files
          /\ pending > 0 =>
                /\ s' = s /\ pending' = pending - 1 /\ tables' = tables
                /\ \/ saved_paths' = saved_paths
                   \/ saved_paths' = Append(saved_paths,
                                            TablePath(i, Len(saved_paths) + 1))
          /\ tables' # tables =>
                /\ s = 3 /\ pending = 0
                /\ tables' = Append(tables, saved_paths)
                /\ Len(tables') = i
                /\ NumberedFrom1(saved_paths, i)
                /\ \A j \in 1..Len(saved_paths) : saved_paths[j] \in files]_vars

\* all pages done: one page whose ruled-line call raised has the table of its
\* text-alignment call, another has one table of each call, numbered 1 and 2
C11_Witness ==
    /\ pc = "records"
    /\ \E n \in 1..Len(file) :
          /\ file[n].lattice.raises /\ file[n].stream.n = 1
          /\ tables[n] = <<TablePath(n, 1)>>
    /\ \E n \in 1..Len(file) :
          /\ ~file[n].lattice.raises /\ file[n].lattice.n = 1
          /\ ~file[n].stream.raises /\ file[n].stream.n = 1
          /\ tables[n] = <<TablePath(n, 1), TablePath(n, 2)>>

\* C12: the image_block_coverage of every page of the preflight report lies
\* between 0 and 1 (0 and 10000 in units of 1/10000), whatever the page's image
\* blocks and its rectangle.
C12_CoverageInUnitInterval ==
    \A n \in 1..Len(diag) :
        /\ diag[n].image_block_coverage >= 0
        /\ diag[n].image_block_coverage <= 10000

====
